---- MODULE Spec2Model ----
(***************************************************************************)
(* A model of JupiterOne/integration-sdk:                                  *)
(*   - FileSystemGraphObjectStore (the buffered, flush-on-threshold graph  *)
(*     object store, its semaphore and its flushes),                       *)
(*   - validateStepStartStates,                                            *)
(*   - the run command, with timeOperation and the event publishing queue, *)
(*   - createIntegrationEntity, the logger's events and                    *)
(*     createErrorEventDescription, as their tests fix them, and           *)
(*   - the step scheduler.                                                 *)
(*                                                                         *)
(* JavaScript runs one synchronous block at a time: an action of the model *)
(* is one such block, from a call or a resumed await up to the next await. *)
(* Entities are handled in chunks: a chunk [id, type, n] stands for the n  *)
(* entities of one _type that one add call passes; the id tells the chunks *)
(* apart, n is what the chunk adds to totalItemCount.                      *)
(***************************************************************************)
EXTENDS Integers, Sequences, FiniteSets, Bags, TLC

GRAPH_OBJECT_BUFFER_THRESHOLD == 500

\* Bounds of the model.
MaxAdds == 3
MaxFlushOps == 3

Kinds == {"entities", "relationships"}
Paths == {"p1", "p2"}
TypesOf(k) == IF k = "entities" THEN {"T1", "T2"} ELSE {"R1"}

\* The batches the callers pass: [path, type, n]. They cover two paths, two
\* types in one bucket, and totals below, at and above the threshold. The two
\* maps run the same code; the relationships get one batch shape.
BatchesOf(k) ==
  IF k = "entities"
    THEN {[path |-> "p1", type |-> "T1", n |-> 499],
          [path |-> "p1", type |-> "T2", n |-> 1],
          [path |-> "p2", type |-> "T2", n |-> 1]}
    ELSE {[path |-> "p1", type |-> "R1", n |-> 250]}

\* c1 makes every kind of call, c2 is a producer that only adds entities
Callers == {"c1", "c2"}
Drivers == {"c1"}
KindsOf(c) == IF c \in Drivers THEN Kinds ELSE {"entities"}

\* the filters of the iterate calls
FilterTypes(k) == IF k = "entities" THEN {"T1"} ELSE {"R1"}

VARIABLES
  storageMap,   \* kind -> BucketMap: entityStorageMap, relationshipStorageMap
  semaphore,    \* the Sema(1): free permits and the FIFO of waiting acquirers
  fops,         \* the flush operations started so far, by flush id
  writes,       \* flushDataToDisk calls in progress
  disk,         \* kind -> type -> bag of chunk ids in the on-disk type index
  calls,        \* caller -> the call it made last and how it stands
  added         \* every chunk handed to addEntities / addRelationships so far

storeVars == <<storageMap, semaphore, fops, writes, disk, calls, added>>

VARIABLES
  states,       \* validateStepStartStates: the start states, in key order
  steps,        \* the declared steps, as their ids in declaration order
  result        \* what the call did: not called, returned, or the error thrown

validationVars == <<states, steps, result>>

VARIABLES
  run,          \* the action of the run command: where it stands, what it caught
  job,          \* the state of the synchronization job at the remote service
  queue,        \* the event publishing queue and what reached the remote
  metrics,      \* the metrics pushed by onPublishMetric, in order
  timeOp        \* a timeOperation call: its arguments and how it stands

cliVars == <<run, job, queue, metrics, timeOp>>

VARIABLES
  entityData,   \* createIntegrationEntity: the { assign, source } it is given
  entity        \* what the call did: not called, the entity, or the error

entityVars == <<entityData, entity>>

VARIABLES
  logCalls,     \* the logger methods called so far, in call order
  published,    \* the events handed to onPublishEvent, in order
  described     \* createErrorEventDescription: its arguments and its result

loggerVars == <<logCalls, published, described>>

VARIABLES
  graph,        \* the scheduler's steps: dependsOn and start state per step
  status,       \* step -> its StepStatus
  invoked,      \* the steps whose handler was invoked, in invocation order
  depsAtStart   \* step -> the statuses of its dependencies when it started

schedulerVars == <<graph, status, invoked, depsAtStart>>

vars ==
  <<storeVars, validationVars, cliVars, entityVars, loggerVars, schedulerVars>>

\* what the store's operations leave alone
notStoreVars ==
  <<validationVars, cliVars, entityVars, loggerVars, schedulerVars>>

\* what validateStepStartStates leaves alone
notValidationVars ==
  <<storeVars, cliVars, entityVars, loggerVars, schedulerVars>>

-----------------------------------------------------------------------------
(* Sequences of chunks *)

RECURSIVE ItemCount(_)
\* values.length of a bucket, in entities
ItemCount(items) ==
  IF items = <<>> THEN 0 ELSE Head(items).n + ItemCount(Tail(items))

Ids(items) == {items[i].id : i \in DOMAIN items}

-----------------------------------------------------------------------------
(* BucketMap *)

BucketMapNew == [map |-> <<>>, totalItemCount |-> 0]

BucketMapGet(b, path) ==
  IF path \in DOMAIN b.map THEN b.map[path] ELSE <<>>

BucketMapAdd(b, path, items) ==
  [map |-> [p \in DOMAIN b.map \cup {path} |->
              IF p = path THEN BucketMapGet(b, path) \o items ELSE b.map[p]],
   totalItemCount |-> b.totalItemCount + ItemCount(items)]

BucketMapDelete(b, path) ==
  [map |-> [p \in DOMAIN b.map \ {path} |-> b.map[p]],
   totalItemCount |-> b.totalItemCount - ItemCount(BucketMapGet(b, path))]

BucketMapKeys(b) == DOMAIN b.map

RECURSIVE BucketMapDeleteAll(_, _)
BucketMapDeleteAll(b, paths) ==
  IF paths = {} THEN b
  ELSE LET p == CHOOSE q \in paths : TRUE
       IN BucketMapDeleteAll(BucketMapDelete(b, p), paths \ {p})

\* the ids of all chunks a BucketMap holds
Buffered(b) == UNION {Ids(b.map[p]) : p \in DOMAIN b.map}

entityStorageMap == storageMap["entities"]
relationshipStorageMap == storageMap["relationships"]

-----------------------------------------------------------------------------
(* The semaphore (async-sema, one permit) and the flush operations.        *)
(* A flush operation lives in a slot of fops from its start until it       *)
(* settles. s = [sem, fops]: the semaphore and the flush operations,       *)
(* threaded through the synchronous part of a call.                        *)

\* pc: free, waiting (for the permit), acquired, listed (the keys are taken),
\* writing (the buckets are drained, their writes in progress). keys is the
\* array pMap maps over. Ghosts: atAcquire and atDrain, the chunks buffered
\* when the permit was taken and right before the drain; drained, the chunks
\* handed to flushDataToDisk; seen, the number of chunks added before the
\* drain.
FreeFop ==
  [kind |-> "entities", pc |-> "free", keys |-> {},
   atAcquire |-> {}, atDrain |-> {}, drained |-> {}, seen |-> 0]

\* a flush that always works on the entities' map, whichever was asked for
NewFopEntities(k) == [FreeFop EXCEPT !.kind = "entities", !.pc = "waiting"]

NewFop(k) == [FreeFop EXCEPT !.kind = k, !.pc = "waiting"]

FreeSlots(fs) == {f \in DOMAIN fs : fs[f].pc = "free"}

LowestFree(fs) == CHOOSE f \in FreeSlots(fs) : \A g \in FreeSlots(fs) : f <= g

\* ghost: what the BucketMap of the flush's kind holds when it gets the permit
MarkAcquired(fop, maps) ==
  [fop EXCEPT !.pc = "acquired", !.atAcquire = Buffered(maps[fop.kind])]

\* semaphore.acquire(): take the permit if it is free, else queue up
SemaAcquire(s, f, maps) ==
  IF s.sem.free > 0
    THEN [sem |-> [s.sem EXCEPT !.free = @ - 1],
          fops |-> [s.fops EXCEPT ![f] = MarkAcquired(@, maps)]]
    ELSE [sem |-> [s.sem EXCEPT !.waiting = Append(@, f)],
          fops |-> s.fops]

\* semaphore.release(): hand the permit to the first waiter, else free it
SemaRelease(s, maps) ==
  IF s.sem.waiting # <<>>
    THEN LET g == Head(s.sem.waiting)
         IN [sem |-> [s.sem EXCEPT !.waiting = Tail(@)],
             fops |-> [s.fops EXCEPT ![g] = MarkAcquired(@, maps)]]
    ELSE [sem |-> [s.sem EXCEPT !.free = @ + 1],
          fops |-> s.fops]

\* flushEntitiesToDisk() / flushRelationshipsToDisk() up to the first await:
\* lockOperation calls semaphore.acquire()
StartFlush(s, k, maps) ==
  LET f == LowestFree(s.fops)
  IN SemaAcquire([sem |-> s.sem, fops |-> [s.fops EXCEPT ![f] = NewFop(k)]],
                 f, maps)

\* try { await operation() } without the finally: a rejection skips release()
lockOperationNoFinally(s, f, outcome, maps) ==
  LET ended == [sem |-> s.sem, fops |-> [s.fops EXCEPT ![f] = FreeFop]]
  IN IF outcome = "rejected" THEN ended ELSE SemaRelease(ended, maps)

\* lockOperation's finally: the operation of flush f has settled, resolved or
\* rejected, and the permit is released
lockOperationFinally(s, f, outcome, maps) ==
  SemaRelease([sem |-> s.sem, fops |-> [s.fops EXCEPT ![f] = FreeFop]], maps)

Cur == [sem |-> semaphore, fops |-> fops]

\* the disk writes of flush f in progress; those of a flush that has
\* rejected stay in progress under Orphan
WritesOf(f) == {w \in writes : w.fid = f}
Orphan == 0

-----------------------------------------------------------------------------
(* Calls *)

Idle(c) == calls[c].st \notin {"pending", "walking"}

NoCall ==
  [op |-> "none", kind |-> "entities", type |-> "T1", st |-> "returned",
   awaits |-> {}, flushed |-> FALSE, upto |-> 0, quiet |-> FALSE,
   delivered |-> EmptyBag]

\* an off-by-one comparison
NeedsFlushAbove(total) == total > GRAPH_OBJECT_BUFFER_THRESHOLD

\* the test after the append: totalItemCount >= GRAPH_OBJECT_BUFFER_THRESHOLD
NeedsFlush(total) == total >= GRAPH_OBJECT_BUFFER_THRESHOLD

\* an add that starts the flush and returns without awaiting it
AddNoAwait(c, k, path, t, n) ==
  /\ Idle(c)
  /\ Len(added) < MaxAdds
  /\ LET chunk == [id |-> Len(added) + 1, type |-> t, n |-> n]
         maps == [storageMap EXCEPT ![k] = BucketMapAdd(@, path, <<chunk>>)]
         flush == NeedsFlush(maps[k].totalItemCount)
     IN /\ flush => FreeSlots(fops) # {}
        /\ storageMap' = maps
        /\ added' = Append(added, [kind |-> k, path |-> path, chunk |-> chunk])
        /\ LET s == IF flush THEN StartFlush(Cur, k, maps) ELSE Cur
           IN /\ semaphore' = s.sem
              /\ fops' = s.fops
              /\ calls' = [calls EXCEPT ![c] =
                   [NoCall EXCEPT !.op = "add", !.kind = k, !.flushed = flush,
                      !.upto = IF flush THEN chunk.id ELSE 0]]
  /\ UNCHANGED <<writes, disk, notStoreVars>>

\* addEntities(path, items) / addRelationships(path, items)
Add(c, k, path, t, n) ==
  /\ Idle(c)
  /\ Len(added) < MaxAdds
  /\ LET chunk == [id |-> Len(added) + 1, type |-> t, n |-> n]
         maps == [storageMap EXCEPT ![k] = BucketMapAdd(@, path, <<chunk>>)]
         flush == NeedsFlush(maps[k].totalItemCount)
     IN /\ flush => FreeSlots(fops) # {}
        /\ storageMap' = maps
        /\ added' = Append(added, [kind |-> k, path |-> path, chunk |-> chunk])
        /\ LET f == LowestFree(fops)
               s == IF flush THEN StartFlush(Cur, k, maps) ELSE Cur
           IN /\ semaphore' = s.sem
              /\ fops' = s.fops
              /\ calls' = [calls EXCEPT ![c] =
                   [NoCall EXCEPT !.op = "add", !.kind = k, !.flushed = flush,
                      !.st = IF flush THEN "pending" ELSE "returned",
                      !.awaits = IF flush THEN {f} ELSE {},
                      \* ghost: the chunk of an add that awaits a flush
                      !.upto = IF flush THEN chunk.id ELSE 0]]
  /\ UNCHANGED <<writes, disk, notStoreVars>>

\* ghost: flush() has resolved for caller c and no add is in progress
FlushedAndQuiet(c) ==
  /\ calls[c].op = "flush" /\ calls[c].st = "returned"
  /\ \A d \in Callers : ~(calls[d].op = "add" /\ calls[d].st = "pending")

\* iterateEntities(filter, iteratee) / iterateRelationships: first the flush
Iterate(c, k, t) ==
  /\ Idle(c)
  /\ FreeSlots(fops) # {}
  /\ LET f == LowestFree(fops)
         s == StartFlush(Cur, k, storageMap)
     IN /\ semaphore' = s.sem
        /\ fops' = s.fops
        /\ calls' = [calls EXCEPT ![c] =
             [NoCall EXCEPT !.op = "iterate", !.kind = k, !.type = t,
                !.st = "pending", !.awaits = {f}, !.flushed = TRUE,
                !.upto = Len(added), !.quiet = FlushedAndQuiet(c)]]
  /\ UNCHANGED <<storageMap, writes, disk, added, notStoreVars>>

\* flush(): Promise.all of the two flushes, the entities' started first
Flush(c) ==
  /\ Idle(c)
  /\ Cardinality(FreeSlots(fops)) >= 2
  /\ LET f1 == LowestFree(fops)
         s1 == StartFlush(Cur, "entities", storageMap)
         f2 == LowestFree(s1.fops)
         s2 == StartFlush(s1, "relationships", storageMap)
     IN /\ semaphore' = s2.sem
        /\ fops' = s2.fops
        /\ calls' = [calls EXCEPT ![c] =
             [NoCall EXCEPT !.op = "flush", !.st = "pending",
                !.flushed = TRUE, !.awaits = {f1, f2}]]
  /\ UNCHANGED <<storageMap, writes, disk, added, notStoreVars>>

-----------------------------------------------------------------------------
(* A flush operation, once it holds the permit *)

\* The awaits of the callers settle with flush f: an add or an iterate awaits
\* its flush, flush() awaits Promise.all of its two (rejected with the first
\* rejection, resolved when both are).
Settled(cs, f, outcome) ==
  [c \in Callers |->
     IF f \notin cs[c].awaits THEN cs[c]
     ELSE IF outcome = "rejected"
       THEN [cs[c] EXCEPT !.st = "rejected", !.awaits = {}]
       ELSE IF cs[c].awaits = {f}
         THEN [cs[c] EXCEPT !.awaits = {},
                 !.st = IF cs[c].op = "iterate" THEN "walking" ELSE "returned"]
         ELSE [cs[c] EXCEPT !.awaits = @ \ {f}]]

\* the operation of flush f settles: lockOperation's finally, then the awaits
Settle(f, outcome) ==
  LET s == lockOperationFinally(Cur, f, outcome, storageMap)
  IN /\ semaphore' = s.sem
     /\ fops' = s.fops
     /\ calls' = Settled(calls, f, outcome)

\* operation() called without await: the finally releases the permit as soon
\* as pMap has been called
ListKeysNoAwait(f) ==
  /\ fops[f].pc = "acquired"
  /\ LET keys == BucketMapKeys(storageMap[fops[f].kind])
         s == SemaRelease(Cur, storageMap)
     IN IF keys = {}
          THEN Settle(f, "resolved")
          ELSE /\ fops' = [s.fops EXCEPT ![f].pc = "listed", ![f].keys = keys]
               /\ semaphore' = s.sem
               /\ UNCHANGED calls
  /\ UNCHANGED <<storageMap, writes, disk, added, notStoreVars>>

\* lockOperation resumes after acquire() and calls operation():
\* [...this.entityStorageMap.keys()] is taken and pMap is called
ListKeys(f) ==
  /\ fops[f].pc = "acquired"
  /\ LET keys == BucketMapKeys(storageMap[fops[f].kind])
     IN IF keys = {}
          \* pMap of no element resolves
          THEN Settle(f, "resolved")
          ELSE /\ fops' = [fops EXCEPT ![f].pc = "listed", ![f].keys = keys]
               /\ UNCHANGED <<semaphore, calls>>
  /\ UNCHANGED <<storageMap, writes, disk, added, notStoreVars>>

\* pMap handed the Map's live keys() iterator instead of an array of them
MapperKeysLive(f) == BucketMapKeys(storageMap[fops[f].kind])

\* what pMap maps over: the array [...keys()] made when pMap was called
MapperKeys(f) == fops[f].keys

\* pMap calls the mapper for every element, one after the other with no other
\* code between them (no concurrency option: all at once): get ?? [], delete,
\* flushDataToDisk started
Drain(f) ==
  /\ fops[f].pc = "listed"
  /\ LET k == fops[f].kind
         b == storageMap[k]
         new == {[fid |-> f, kind |-> k, path |-> p, data |-> BucketMapGet(b, p)] :
                   p \in MapperKeys(f)}
     IN /\ writes' = writes \cup new
        /\ storageMap' = [storageMap EXCEPT
                            ![k] = BucketMapDeleteAll(b, MapperKeys(f))]
        /\ fops' = [fops EXCEPT ![f].pc = "writing",
                      ![f].atDrain = Buffered(b),
                      ![f].drained = UNION {Ids(w.data) : w \in new},
                      ![f].seen = Len(added)]
  /\ UNCHANGED <<semaphore, disk, calls, added, notStoreVars>>

\* flushDataToDisk: the bucket's items, partitioned by _type, into the index
\* of the kind the flush writes
Partition(d, items) ==
  [t \in DOMAIN d |->
     d[t] (+) SetToBag({items[i].id : i \in {j \in DOMAIN items : items[j].type = t}})]

\* a bucket's flushDataToDisk resolves; pMap resolves with the last of them
WriteOk(w) ==
  /\ w \in writes
  /\ disk' = [disk EXCEPT ![w.kind] = Partition(@, w.data)]
  /\ writes' = writes \ {w}
  /\ IF w.fid # Orphan /\ WritesOf(w.fid) = {w}
       THEN Settle(w.fid, "resolved")
       ELSE UNCHANGED <<semaphore, fops, calls>>
  /\ UNCHANGED <<storageMap, added, notStoreVars>>

\* a bucket's flushDataToDisk rejects; pMap (stopOnError) rejects at once,
\* whatever else it has in flight
WriteFail(w) ==
  /\ w \in writes
  /\ IF w.fid # Orphan
       THEN /\ Settle(w.fid, "rejected")
            /\ writes' = {[x EXCEPT !.fid = IF @ = w.fid THEN Orphan ELSE @] :
                            x \in writes \ {w}}
       ELSE /\ writes' = writes \ {w}
            /\ UNCHANGED <<semaphore, fops, calls>>
  /\ UNCHANGED <<storageMap, disk, added, notStoreVars>>

\* iterateEntityTypeIndex / iterateRelationshipTypeIndex: the iteratee is
\* invoked once per object in the index of the type
Walk(c) ==
  /\ calls[c].st = "walking"
  /\ calls' = [calls EXCEPT ![c].st = "returned",
                 ![c].delivered = disk[calls[c].kind][calls[c].type]]
  /\ UNCHANGED <<storageMap, semaphore, fops, writes, disk, added, notStoreVars>>

-----------------------------------------------------------------------------
(* validateStepStartStates(states, steps) *)

MaxSteps == 4
StepIds == {"a", "b", "c"}

\* the step lists: any ids, an id may be declared twice
StepLists == UNION {[1..n -> StepIds] : n \in 0..MaxSteps}

\* the start states: Object.keys(states) are distinct; each has a disabled flag
StartStates ==
  {st \in UNION {[1..n -> [stepId : StepIds, disabled : BOOLEAN]] :
                   n \in 0..Cardinality(StepIds)} :
     \A i, j \in DOMAIN st : st[i].stepId = st[j].stepId => i = j}

\* Object.keys(states)
ObjectKeys(st) == [i \in DOMAIN st |-> st[i].stepId]

Has(set, x) == \E i \in DOMAIN set : set[i] = x

\* A JavaScript Set keeps its elements in insertion order: a sequence without
\* repetition.
SetAdd(set, x) == IF Has(set, x) THEN set ELSE Append(set, x)

RECURSIVE SetDelete(_, _)
SetDelete(set, x) ==
  IF set = <<>> THEN <<>>
  ELSE IF Head(set) = x THEN Tail(set)
  ELSE <<Head(set)>> \o SetDelete(Tail(set), x)

RECURSIVE NewSet(_)
\* new Set(steps.map((step) => step.id))
NewSet(ids) ==
  IF ids = <<>> THEN <<>>
  ELSE SetAdd(NewSet(SubSeq(ids, 1, Len(ids) - 1)), ids[Len(ids)])

\* a loop that throws on a key whose step is accounted for, not on an unknown one
RECURSIVE ForEachKeyInverted(_, _)
ForEachKeyInverted(keys, stepSet) ==
  IF keys = <<>> THEN [threw |-> FALSE, stepId |-> "", stepSet |-> stepSet]
  ELSE IF Has(stepSet, Head(keys))
    THEN [threw |-> TRUE, stepId |-> Head(keys), stepSet |-> stepSet]
    ELSE ForEachKeyInverted(Tail(keys), SetDelete(stepSet, Head(keys)))

\* a loop that goes through all the keys and throws on the last unknown one
RECURSIVE ForEachKeyLast(_, _)
ForEachKeyLast(keys, stepSet) ==
  IF keys = <<>> THEN [threw |-> FALSE, stepId |-> "", stepSet |-> stepSet]
  ELSE LET rest == ForEachKeyLast(Tail(keys), SetDelete(stepSet, Head(keys)))
       IN IF rest.threw \/ Has(stepSet, Head(keys)) THEN rest
          ELSE [threw |-> TRUE, stepId |-> Head(keys), stepSet |-> stepSet]

RECURSIVE ForEachKey(_, _)
\* Object.keys(states).forEach: throw on the first key that is not in stepSet,
\* delete the others from it
ForEachKey(keys, stepSet) ==
  IF keys = <<>> THEN [threw |-> FALSE, stepId |-> "", stepSet |-> stepSet]
  ELSE IF ~Has(stepSet, Head(keys))
    THEN [threw |-> TRUE, stepId |-> Head(keys), stepSet |-> stepSet]
    ELSE ForEachKey(Tail(keys), SetDelete(stepSet, Head(keys)))

\* the ids of the steps no key accounted for, without the deletions of the loop
UnaccountedAll(left, ids) == NewSet(ids)

\* [...stepSet] after the loop: the ids the message names, each quoted, joined
UnaccountedStepIds(left, ids) == left

Returned == [error |-> "none", stepIds |-> <<>>]
NotCalled == [error |-> "not called", stepIds |-> <<>>]

\* the call's outcome: the error thrown and the step ids its message names
validateStepStartStates(st, ids) ==
  LET loop == ForEachKey(ObjectKeys(st), NewSet(ids))
  IN IF loop.threw
       THEN [error |-> "IntegrationStepStartStateInvalidStepIdError",
             stepIds |-> <<loop.stepId>>]
       ELSE IF Len(loop.stepSet) > 0
         THEN [error |-> "IntegrationUnaccountedStepStartStatesError",
               stepIds |-> UnaccountedStepIds(loop.stepSet, ids)]
         ELSE Returned

Validate ==
  /\ result = NotCalled
  /\ result' = validateStepStartStates(states, steps)
  /\ UNCHANGED <<states, steps, notValidationVars>>

-----------------------------------------------------------------------------
(* timeOperation, in its two variants *)

MaxElapsed == 2

Variants == {"object", "positional"}

\* what the operation does when it is called: return a plain value, return a
\* promise that resolves or one that rejects, or throw
Behaviours == {"value", "resolves", "rejects", "throws"}
MetricNames == {"collection-duration", "synchronization-upload-duration"}
Payloads == {"x", "y"}

NoTimeOperation ==
  [variant |-> "object", behaviour |-> "value", metricName |-> "",
   payload |-> "", now |-> 0, startTime |-> 0, pc |-> "idle",
   received |-> ""]

\* logger.publishMetric({ metricName, unit, value, timestamp }), which hands
\* the metric to onPublishMetric: metrics.push(metric)
publishMetric(ms, metricName, startTime, endTime) ==
  Append(ms, [metricName |-> metricName, unit |-> "Milliseconds",
              value |-> endTime - startTime, timestamp |-> endTime])

\* The object-argument variant attaches its callback with
\* Promise.resolve(operation()).finally(...): operation() runs first, and when
\* it throws nothing is attached.
ObjectFinallyRuns(behaviour) == behaviour # "throws"

\* The call up to its first await. A throw of the operation leaves the
\* object-argument variant at once; the positional variant has it inside its
\* try and runs its finally block on the way out.
timeOperation(t, ms) ==
  LET started == [t EXCEPT !.startTime = t.now]
  IN IF t.behaviour # "throws"
       THEN [timeOp |-> [started EXCEPT !.pc = "awaiting"], metrics |-> ms]
       ELSE [timeOp |-> [started EXCEPT !.pc = "rejected",
                                        !.received = t.payload],
             metrics |-> IF t.variant = "object" /\ ~ObjectFinallyRuns(t.behaviour)
                           THEN ms
                           ELSE publishMetric(ms, t.metricName, t.now, t.now)]

TimeOperationCall ==
  /\ timeOp.pc = "idle"
  /\ timeOp' = timeOperation(timeOp, metrics).timeOp
  /\ metrics' = timeOperation(timeOp, metrics).metrics
  /\ UNCHANGED <<run, job, queue, storeVars, validationVars, entityVars,
                 loggerVars, schedulerVars>>

\* The promise of the operation has settled: the .finally callback, or the
\* finally block, publishes the metric and the outcome goes to the caller.
TimeOperationSettled ==
  /\ timeOp.pc = "awaiting"
  /\ \E d \in 0..MaxElapsed :
       /\ timeOp' = [timeOp EXCEPT
            !.now = timeOp.now + d,
            !.pc = IF timeOp.behaviour = "rejects" THEN "rejected"
                   ELSE "resolved",
            !.received = timeOp.payload]
       /\ metrics' = publishMetric(metrics, timeOp.metricName,
                                   timeOp.startTime, timeOp.now + d)
  /\ UNCHANGED <<run, job, queue, storeVars, validationVars, entityVars,
                 loggerVars, schedulerVars>>

-----------------------------------------------------------------------------
(* The event publishing queue *)

MaxEvents == 3
MaxAttempts == 2

\* events are numbered in the order of their enqueue calls
NoPost == [event |-> 0, attempt |-> 0]
EmptyQueue ==
  [pending |-> <<>>, inflight |-> NoPost, delivered |-> <<>>, dropped |-> {}]

enqueue(q, e) == [q EXCEPT !.pending = Append(q.pending, e)]

\* what onIdle() waits for
QueueIdle(q) == q.pending = <<>> /\ q.inflight = NoPost

\* a worker that takes the next event whether or not a post is in flight
PostNextConcurrent(q) ==
  [q EXCEPT !.pending = Tail(q.pending),
            !.inflight = [event |-> Head(q.pending), attempt |-> 1]]

\* the single worker takes the next event once no post is in flight
PostNext(q) ==
  IF q.inflight = NoPost
    THEN [q EXCEPT !.pending = Tail(q.pending),
                   !.inflight = [event |-> Head(q.pending), attempt |-> 1]]
    ELSE q

PostStart ==
  /\ queue.pending # <<>>
  /\ queue' = PostNext(queue)
  /\ queue' # queue
  /\ UNCHANGED <<run, job, metrics, timeOp, storeVars, validationVars,
                 entityVars, loggerVars, schedulerVars>>

PostOk ==
  /\ queue.inflight # NoPost
  /\ queue' = [queue EXCEPT
       !.delivered = Append(queue.delivered, queue.inflight.event),
       !.inflight = NoPost]
  /\ UNCHANGED <<run, job, metrics, timeOp, storeVars, validationVars,
                 entityVars, loggerVars, schedulerVars>>

\* a failed post is retried; after MaxAttempts the event is dropped
PostFail ==
  /\ queue.inflight # NoPost
  /\ queue' =
       IF queue.inflight.attempt < MaxAttempts
         THEN [queue EXCEPT !.inflight.attempt = queue.inflight.attempt + 1]
         ELSE [queue EXCEPT
                 !.dropped = queue.dropped \cup {queue.inflight.event},
                 !.inflight = NoPost]
  /\ UNCHANGED <<run, job, metrics, timeOp, storeVars, validationVars,
                 entityVars, loggerVars, schedulerVars>>

-----------------------------------------------------------------------------
(* The run command *)

JobId == "job-1"

\* the errors that the calls of the action throw; isHandledError tells them
\* apart
Errors ==
  {[message |-> "handled failure", handled |-> TRUE],
   [message |-> "unexpected failure", handled |-> FALSE]}
NoError == [message |-> "", handled |-> FALSE]

isHandledError(err) == err.handled

\* executionResults.metadata.partialDatasets: the types reported partial
PartialDatasets == SUBSET {"T1", "T2"}

\* partialDatasets: of the execution results; uploaded: uploadCollectedData
\* has resolved; finalizes, aborts: the calls of finalizeSynchronization and
\* abortSynchronization made so far
NoRun ==
  [pc |-> "start", caught |-> NoError, thrownBy |-> "", rejection |-> NoError,
   logged |-> <<>>, aborts |-> <<>>, enqueued |-> 0, executionEvents |-> 0,
   partialDatasets |-> {}, uploaded |-> FALSE, finalizes |-> <<>>]

otherThanRun ==
  <<timeOp, storeVars, validationVars, entityVars, loggerVars, schedulerVars>>

\* the finally block of the action
RunFinally(ms) == publishMetric(ms, "total-duration", 0, 0)

\* the action up to its first await, and initiateSynchronization settling
RunInitiate ==
  /\ run.pc = "start"
  /\ \/ /\ job' = "AWAITING_UPLOADS"
        /\ run' = [run EXCEPT !.pc = "loadConfig"]
     \/ \E e \in Errors :
          /\ run' = [run EXCEPT !.pc = "rejected", !.rejection = e,
                                !.thrownBy = "initiate"]
          /\ job' = job
  /\ UNCHANGED <<queue, metrics, otherThanRun>>

\* loadConfig settles; the try block starts and calls timeOperation, whose
\* operation builds the instance and calls executeIntegrationInstance
RunLoadConfig ==
  /\ run.pc = "loadConfig"
  /\ \/ /\ run' = [run EXCEPT !.pc = "executing"]
        /\ UNCHANGED metrics
     \/ \E e \in Errors :
          \/ /\ run' = [run EXCEPT !.pc = "rejected", !.rejection = e,
                                   !.thrownBy = "loadConfig"]
             /\ UNCHANGED metrics
          \/ \* createIntegrationInstanceForLocalExecution throws
             /\ run' = [run EXCEPT !.pc = "catchDraining", !.caught = e,
                                   !.thrownBy = "execute"]
             /\ metrics' = IF ObjectFinallyRuns("throws")
                             THEN publishMetric(metrics, "collection-duration",
                                                0, 0)
                             ELSE metrics
  /\ UNCHANGED <<job, queue, otherThanRun>>

\* onPublishEvent: eventPublishingQueue?.enqueue(event), for an event of the
\* steps while they execute, or of the upload driver while it uploads
RunPublishEvent ==
  /\ run.pc \in {"executing", "uploading"}
  /\ run.enqueued < MaxEvents
  /\ run' = [run EXCEPT !.enqueued = run.enqueued + 1]
  /\ queue' = enqueue(queue, run.enqueued + 1)
  /\ UNCHANGED <<job, metrics, otherThanRun>>

\* executeIntegrationInstance settles; the action goes on to await onIdle()
RunExecuted ==
  /\ run.pc = "executing"
  /\ metrics' = publishMetric(metrics, "collection-duration", 0, 0)
  /\ \/ \E p \in PartialDatasets :
          run' = [run EXCEPT !.pc = "draining",
                             !.executionEvents = run.enqueued,
                             !.partialDatasets = p]
     \/ \E e \in Errors :
          run' = [run EXCEPT !.pc = "catchDraining", !.caught = e,
                             !.thrownBy = "execute",
                             !.executionEvents = run.enqueued]
  /\ UNCHANGED <<job, queue, otherThanRun>>

\* an action that goes on to the upload without awaiting onIdle()
RunDrainedNoWait ==
  /\ run.pc = "draining"
  /\ run' = [run EXCEPT !.pc = "uploading"]
  /\ UNCHANGED <<job, queue, metrics, otherThanRun>>

\* onIdle() has resolved; timeOperation calls uploadCollectedData
RunDrained ==
  /\ run.pc = "draining"
  /\ QueueIdle(queue)
  /\ run' = [run EXCEPT !.pc = "uploading"]
  /\ UNCHANGED <<job, queue, metrics, otherThanRun>>

\* a finalizeSynchronization call that leaves the partialDatasets out
FinalizeCallNoPartialDatasets(r) == [job |-> JobId, partialDatasets |-> {}]

\* finalizeSynchronization({...synchronizationContext, partialDatasets:
\* executionResults.metadata.partialDatasets})
FinalizeCall(r) == [job |-> JobId, partialDatasets |-> r.partialDatasets]

\* uploadCollectedData settles; on success finalizeSynchronization is called
RunUploaded ==
  /\ run.pc = "uploading"
  /\ metrics' = publishMetric(metrics, "synchronization-upload-duration", 0, 0)
  /\ \/ run' = [run EXCEPT !.pc = "finalizing", !.uploaded = TRUE,
                           !.finalizes = Append(run.finalizes, FinalizeCall(run))]
     \/ \E e \in Errors :
          run' = [run EXCEPT !.pc = "catchDraining", !.caught = e,
                             !.thrownBy = "upload"]
  /\ UNCHANGED <<job, queue, otherThanRun>>

\* finalizeSynchronization settles; on success the try block ends, the
\* finally block runs and the action completes
RunFinalized ==
  /\ run.pc = "finalizing"
  /\ \/ /\ job' = "FINALIZED"
        /\ run' = [run EXCEPT !.pc = "resolved"]
        /\ metrics' = RunFinally(metrics)
     \/ \E e \in Errors :
          /\ run' = [run EXCEPT !.pc = "catchDraining", !.caught = e,
                                !.thrownBy = "finalize"]
          /\ UNCHANGED <<job, metrics>>
  /\ UNCHANGED <<queue, otherThanRun>>

\* a catch block that gives the text of its log line as the reason
RunCatchLogLineReason(r) ==
  [r EXCEPT
     !.pc = "aborting",
     !.logged = IF ~isHandledError(r.caught)
                  THEN Append(r.logged, r.caught.message) ELSE r.logged,
     !.aborts = Append(r.aborts,
                  [job |-> JobId,
                   reason |->
                     "Unexpected error occurred during integration run."])]

\* a catch block that aborts the job only for an error that is not handled
RunCatchUnhandledOnly(r) ==
  IF isHandledError(r.caught)
    THEN [r EXCEPT !.pc = "aborting"]
    ELSE [r EXCEPT
            !.pc = "aborting",
            !.logged = Append(r.logged, r.caught.message),
            !.aborts = Append(r.aborts,
                         [job |-> JobId, reason |-> r.caught.message])]

\* the catch block once its onIdle() has resolved: logger.error for an error
\* that is not handled, then abortSynchronization with the error's message
RunCatch(r) ==
  [r EXCEPT
     !.pc = "aborting",
     !.logged = IF ~isHandledError(r.caught)
                  THEN Append(r.logged, r.caught.message) ELSE r.logged,
     !.aborts = Append(r.aborts,
                  [job |-> JobId, reason |-> r.caught.message])]

RunCatchDrained ==
  /\ run.pc = "catchDraining"
  /\ QueueIdle(queue)
  /\ run' = RunCatch(run)
  /\ UNCHANGED <<job, queue, metrics, otherThanRun>>

\* abortSynchronization settles; the finally block runs and the action
\* completes, or rejects with the error of abortSynchronization
RunAborted ==
  /\ run.pc = "aborting"
  /\ metrics' = RunFinally(metrics)
  /\ \/ /\ job' = "ABORTED"
        /\ run' = [run EXCEPT !.pc = "resolved"]
     \/ \E e \in Errors :
          /\ run' = [run EXCEPT !.pc = "rejected", !.rejection = e,
                                !.thrownBy = "abort"]
          /\ job' = job
  /\ UNCHANGED <<queue, otherThanRun>>

-----------------------------------------------------------------------------
(* createIntegrationEntity, as its tests and section 4.2 describe it *)

MaxRawData == 2

Absent == "undefined"

\* the names of the _rawData entries that assign can carry
RawDataNames == {"default", "additional", "another"}

RECURSIVE SeqsUpTo(_, _)
\* the sequences over S of length at most n
SeqsUpTo(S, n) ==
  IF n = 0 THEN {<<>>}
  ELSE LET shorter == SeqsUpTo(S, n - 1)
       IN shorter \cup {Append(q, x) : q \in shorter, x \in S}

\* source: its name, the Value of its tag with Key 'name', its id, and whether
\* it has other fields
Sources ==
  [name : {Absent, "My Network"}, tagName : {Absent, "Name from tag.name"},
   id : {Absent, "natural-identifier"}, other : BOOLEAN]

\* assign: displayName, name, _key and the names of its _rawData entries
Assigns ==
  [displayName : {Absent, "Literal assignment"},
   name : {Absent, "Name is required when not provided by source"},
   key : {Absent, "required-when-source-cannot-be-used"},
   rawData : SeqsUpTo(RawDataNames, MaxRawData)]

\* the inputs that have a _key: assign._key or source.id
EntityInputs ==
  {d \in [assign : Assigns, source : Sources] :
     d.assign.key # Absent \/ d.source.id # Absent}

\* Object.entries(source).length = 0
SourceIsEmpty(source) ==
  /\ source.name = Absent /\ source.tagName = Absent
  /\ source.id = Absent /\ ~source.other

\* an entry of assign._rawData carries what the caller gave it, the default
\* entry carries the source
AssignedRawData(names) ==
  [i \in DOMAIN names |-> [name |-> names[i], rawData |-> "assigned"]]

\* a _rawData that always begins with the default entry
RawDataAlwaysDefault(d) ==
  <<[name |-> "default", rawData |-> "source"]>>
    \o AssignedRawData(d.assign.rawData)

\* _rawData: the default entry unless the source is empty, then the entries
\* of assign in their order
RawDataOf(d) ==
  (IF SourceIsEmpty(d.source) THEN <<>>
   ELSE <<[name |-> "default", rawData |-> "source"]>>)
    \o AssignedRawData(d.assign.rawData)

HasDuplicateName(rawData) ==
  \E i, j \in DOMAIN rawData : i # j /\ rawData[i].name = rawData[j].name

\* the name of the entity: assign is merged on top of the source's fields
NameOf(d) == IF d.assign.name # Absent THEN d.assign.name ELSE d.source.name

\* a displayName that prefers the name to the tag
DisplayNameNameFirst(d) ==
  IF d.assign.displayName # Absent THEN d.assign.displayName
  ELSE IF NameOf(d) # Absent THEN NameOf(d)
  ELSE d.source.tagName

\* displayName: assign.displayName, else the tag named 'name', else the name
DisplayNameOf(d) ==
  IF d.assign.displayName # Absent THEN d.assign.displayName
  ELSE IF d.source.tagName # Absent THEN d.source.tagName
  ELSE NameOf(d)

KeyOf(d) == IF d.assign.key # Absent THEN d.assign.key ELSE d.source.id

NoEntity == [error |-> "not called"]

createIntegrationEntity(d) ==
  IF HasDuplicateName(RawDataOf(d)) THEN [error |-> "duplicate"]
  ELSE IF DisplayNameOf(d) = Absent THEN [error |-> "name"]
  ELSE [error |-> "none", displayName |-> DisplayNameOf(d),
        name |-> NameOf(d), key |-> KeyOf(d), rawData |-> RawDataOf(d)]

CreateEntity ==
  /\ entity = NoEntity
  /\ entity' = createIntegrationEntity(entityData)
  /\ UNCHANGED <<entityData, storeVars, validationVars, cliVars, loggerVars,
                 schedulerVars>>

-----------------------------------------------------------------------------
(* The logger's events and createErrorEventDescription, as the tests fix them *)

MaxLogCalls == 3

\* the two constants of integration-sdk-core, kept opaque
UNEXPECTED_ERROR_CODE == "${UNEXPECTED_ERROR_CODE}"
UNEXPECTED_ERROR_REASON == "${UNEXPECTED_ERROR_REASON}"

\* an Error without a code, and integration errors, which carry one
LoggedErrors ==
  {[code |-> Absent, message |-> "soba"],
   [code |-> "${IntegrationValidationError.code}", message |-> "soba"],
   [code |-> "${IntegrationLocalConfigFieldMissingError.code}",
    message |-> "ripperoni"]}
NoLoggedError == [code |-> Absent, message |-> ""]

ErrorIds == {"uuid-1", "uuid-2"}
Prefixes == {"testing", "Step \"Mochi\" failed to complete due to error."}

\* a description is the sequence of the pieces its template joins
Description(prefix, code, errorId, reason) ==
  <<prefix, " (errorCode=\"", code, "\", errorId=\"", errorId,
    "\", reason=\"", reason, "\")">>

\* a description that gives the message of every error as the reason
createErrorEventDescriptionOwnMessage(err, prefix, errorId) ==
  [errorId |-> errorId,
   description |->
     IF err.code # Absent
       THEN Description(prefix, err.code, errorId, err.message)
       ELSE Description(prefix, UNEXPECTED_ERROR_CODE, errorId, err.message)]

\* errorId is the uuid the call draws
createErrorEventDescription(err, prefix, errorId) ==
  [errorId |-> errorId,
   description |->
     IF err.code # Absent
       THEN Description(prefix, err.code, errorId, err.message)
       ELSE Description(prefix, UNEXPECTED_ERROR_CODE, errorId,
                        UNEXPECTED_ERROR_REASON)]

NotDescribed ==
  [err |-> NoLoggedError, prefix |-> "", errorId |-> "", description |-> <<>>]

Describe ==
  /\ described = NotDescribed
  /\ \E err \in LoggedErrors, prefix \in Prefixes, id \in ErrorIds :
       LET r == createErrorEventDescription(err, prefix, id)
       IN described' = [err |-> err, prefix |-> prefix,
                        errorId |-> r.errorId, description |-> r.description]
  /\ UNCHANGED <<logCalls, published, storeVars, validationVars, cliVars,
                 entityVars, schedulerVars>>

\* the methods of the logger that publish an event
PlainMethods ==
  {"stepStart", "stepSuccess", "synchronizationUploadStart",
   "synchronizationUploadEnd"}
ErrorMethods == {"stepFailure", "validationFailure"}

\* an event naming that gives stepSuccess the name of its method
EventNameOfMethod(method) ==
  CASE method = "stepStart" -> "step_start"
    [] method = "stepSuccess" -> "step_success"
    [] method = "stepFailure" -> "step_failure"
    [] method = "synchronizationUploadStart" -> "sync_upload_start"
    [] method = "synchronizationUploadEnd" -> "sync_upload_end"
    [] method = "validationFailure" -> "validation_failure"

EventName(method) ==
  CASE method = "stepStart" -> "step_start"
    [] method = "stepSuccess" -> "step_end"
    [] method = "stepFailure" -> "step_failure"
    [] method = "synchronizationUploadStart" -> "sync_upload_start"
    [] method = "synchronizationUploadEnd" -> "sync_upload_end"
    [] method = "validationFailure" -> "validation_failure"

EventDescription(method) ==
  CASE method = "stepStart" -> <<"Starting step \"Mochi\"...">>
    [] method = "stepSuccess" -> <<"Completed step \"Mochi\".">>
    [] method = "synchronizationUploadStart" ->
         <<"Uploading collected data for synchronization...">>
    [] method = "synchronizationUploadEnd" -> <<"Upload complete.">>

ErrorPrefix(method) ==
  CASE method = "stepFailure" ->
         "Step \"Mochi\" failed to complete due to error."
    [] method = "validationFailure" ->
         "Error occurred while validating integration configuration."

\* publishEvent -> onPublishEvent(event), within the call of the method
onPublishEvent(events, event) == Append(events, event)

\* logger.stepStart(step), stepSuccess(step), synchronizationUploadStart(job)
\* and synchronizationUploadEnd(job)
LogPlain(method) ==
  /\ Len(logCalls) < MaxLogCalls
  /\ logCalls' = Append(logCalls, method)
  /\ published' = onPublishEvent(published,
       [name |-> EventName(method), description |-> EventDescription(method)])
  /\ UNCHANGED <<described, storeVars, validationVars, cliVars, entityVars,
                 schedulerVars>>

\* logger.stepFailure(step, err) and logger.validationFailure(err)
LogError(method, err, errorId) ==
  /\ Len(logCalls) < MaxLogCalls
  /\ logCalls' = Append(logCalls, method)
  /\ published' = onPublishEvent(published,
       [name |-> EventName(method),
        description |->
          createErrorEventDescription(err, ErrorPrefix(method),
                                      errorId).description])
  /\ UNCHANGED <<described, storeVars, validationVars, cliVars, entityVars,
                 schedulerVars>>

-----------------------------------------------------------------------------
(* The step scheduler, as section 4.5 describes it *)

MaxGraphSteps == 3
Concurrency == 1

\* the steps in the order of the input list
StepOrder == <<"s1", "s2", "s3", "s4", "s5">>
GraphSteps == {StepOrder[i] : i \in 1..MaxGraphSteps}
Position(s) == CHOOSE i \in 1..MaxGraphSteps : StepOrder[i] = s

\* the acyclic graphs: a step depends on steps before it in the list
ForwardPairs ==
  {p \in GraphSteps \X GraphSteps : Position(p[1]) < Position(p[2])}

Graphs ==
  {[dependsOn |-> [s \in GraphSteps |-> {d \in GraphSteps : <<d, s>> \in E}],
    disabled |-> dis] :
     E \in SUBSET ForwardPairs, dis \in [GraphSteps -> BOOLEAN]}

Terminal ==
  {"SUCCESS", "FAILURE", "PARTIAL_SUCCESS_DUE_TO_DEPENDENCY_FAILURE",
   "DISABLED"}

\* initial PENDING, or DISABLED if the start state says so
InitialStatus(g) ==
  [s \in GraphSteps |-> IF g.disabled[s] THEN "DISABLED" ELSE "PENDING"]

\* the ready set: the PENDING steps whose dependencies are terminal
Ready(s) ==
  /\ status[s] = "PENDING"
  /\ \A d \in graph.dependsOn[s] : status[d] \in Terminal

\* a classification that lets a step run after a disabled dependency
DepsAllSuccessOrDisabled(s) ==
  \A d \in graph.dependsOn[s] : status[d] \in {"SUCCESS", "DISABLED"}

DepsAllSuccess(s) == \A d \in graph.dependsOn[s] : status[d] = "SUCCESS"

Running == {s \in GraphSteps : status[s] = "RUNNING"}

\* the dispatch-eligible steps, of which the first in the input list goes
Eligible == {s \in GraphSteps : Ready(s) /\ DepsAllSuccess(s)}

\* PENDING -> RUNNING: the handler is invoked
Dispatch(s) ==
  /\ s \in Eligible
  /\ \A e \in Eligible : Position(s) <= Position(e)
  /\ Cardinality(Running) < Concurrency
  /\ status' = [status EXCEPT ![s] = "RUNNING"]
  /\ invoked' = Append(invoked, s)
  /\ depsAtStart' =
       [depsAtStart EXCEPT ![s] = {status[d] : d \in graph.dependsOn[s]}]
  /\ UNCHANGED <<graph, storeVars, validationVars, cliVars, entityVars,
                 loggerVars>>

\* PENDING -> PARTIAL_SUCCESS_DUE_TO_DEPENDENCY_FAILURE, without dispatching
MarkPartial(s) ==
  /\ Ready(s)
  /\ ~DepsAllSuccess(s)
  /\ status' =
       [status EXCEPT ![s] = "PARTIAL_SUCCESS_DUE_TO_DEPENDENCY_FAILURE"]
  /\ UNCHANGED <<graph, invoked, depsAtStart, storeVars, validationVars,
                 cliVars, entityVars, loggerVars>>

\* RUNNING -> SUCCESS on handler completion without error
HandlerCompletes(s) ==
  /\ status[s] = "RUNNING"
  /\ status' = [status EXCEPT ![s] = "SUCCESS"]
  /\ UNCHANGED <<graph, invoked, depsAtStart, storeVars, validationVars,
                 cliVars, entityVars, loggerVars>>

\* RUNNING -> FAILURE on handler throw
HandlerThrows(s) ==
  /\ status[s] = "RUNNING"
  /\ status' = [status EXCEPT ![s] = "FAILURE"]
  /\ UNCHANGED <<graph, invoked, depsAtStart, storeVars, validationVars,
                 cliVars, entityVars, loggerVars>>

-----------------------------------------------------------------------------
(* The specifications *)

StoreInit ==
  /\ storageMap = [k \in Kinds |-> BucketMapNew]
  /\ semaphore = [free |-> 1, waiting |-> <<>>]
  /\ fops = [f \in 1..MaxFlushOps |-> FreeFop]
  /\ writes = {}
  /\ disk = [k \in Kinds |-> [t \in TypesOf(k) |-> EmptyBag]]
  /\ calls = [c \in Callers |-> NoCall]
  /\ added = <<>>

ValidationIdle ==
  /\ states = <<>>
  /\ steps = <<>>
  /\ result = NotCalled

StoreNext ==
  \/ \E c \in Callers : \E k \in KindsOf(c) :
       \E b \in BatchesOf(k) : Add(c, k, b.path, b.type, b.n)
  \/ \E c \in Drivers, k \in Kinds : \E t \in FilterTypes(k) : Iterate(c, k, t)
  \/ \E c \in Drivers : Flush(c)
  \/ \E f \in 1..MaxFlushOps : ListKeys(f)
  \/ \E f \in 1..MaxFlushOps : Drain(f)
  \/ \E w \in writes : WriteOk(w)
  \/ \E w \in writes : WriteFail(w)
  \/ \E c \in Drivers : Walk(c)

RunIdle == run = NoRun /\ job = "NONE" /\ queue = EmptyQueue
CliIdle == RunIdle /\ metrics = <<>> /\ timeOp = NoTimeOperation

NoEntityData ==
  [assign |-> [displayName |-> Absent, name |-> Absent, key |-> Absent,
               rawData |-> <<>>],
   source |-> [name |-> Absent, tagName |-> Absent, id |-> Absent,
               other |-> FALSE]]
EntityIdle == entityData = NoEntityData /\ entity = NoEntity

LoggerIdle == logCalls = <<>> /\ published = <<>> /\ described = NotDescribed

NoGraph ==
  [dependsOn |-> [s \in GraphSteps |-> {}],
   disabled |-> [s \in GraphSteps |-> FALSE]]
SchedulerIdle ==
  /\ graph = NoGraph
  /\ status = InitialStatus(NoGraph)
  /\ invoked = <<>>
  /\ depsAtStart = [s \in GraphSteps |-> {}]

\* the graph object store under its callers
Init ==
  /\ StoreInit /\ ValidationIdle /\ CliIdle /\ EntityIdle /\ LoggerIdle
  /\ SchedulerIdle
Next == StoreNext
Spec == Init /\ [][Next]_vars

\* validateStepStartStates on every input within the bounds
InitValidation ==
  /\ StoreInit /\ CliIdle /\ EntityIdle /\ LoggerIdle /\ SchedulerIdle
  /\ states \in StartStates
  /\ steps \in StepLists
  /\ result = NotCalled
NextValidation == Validate
SpecValidation == InitValidation /\ [][NextValidation]_vars

\* the run command with its event publishing queue
InitRun ==
  /\ StoreInit /\ ValidationIdle /\ CliIdle /\ EntityIdle /\ LoggerIdle
  /\ SchedulerIdle
NextRun ==
  \/ RunInitiate
  \/ RunLoadConfig
  \/ RunPublishEvent
  \/ RunExecuted
  \/ RunDrained
  \/ RunUploaded
  \/ RunFinalized
  \/ RunCatchDrained
  \/ RunAborted
  \/ PostStart
  \/ PostOk
  \/ PostFail
SpecRun == InitRun /\ [][NextRun]_vars

\* The steps of the action and those of the queue's worker. Every awaited
\* call of the action settles (initiateSynchronization, loadConfig,
\* executeIntegrationInstance, onIdle once the queue is idle,
\* uploadCollectedData, finalizeSynchronization, abortSynchronization), and
\* every post of the worker completes or fails.
RunStep ==
  \/ RunInitiate \/ RunLoadConfig \/ RunExecuted \/ RunDrained \/ RunUploaded
  \/ RunFinalized \/ RunCatchDrained \/ RunAborted
QueueStep == PostStart \/ PostOk \/ PostFail

\* the run command when the queue drain and the remote calls return
SpecRunFair == SpecRun /\ WF_vars(RunStep) /\ WF_vars(QueueStep)

\* timeOperation, each variant on every operation within the bounds
InitTimeOperation ==
  /\ StoreInit /\ ValidationIdle /\ RunIdle /\ EntityIdle /\ LoggerIdle
  /\ SchedulerIdle
  /\ metrics = <<>>
  /\ \E v \in Variants, b \in Behaviours, m \in MetricNames, p \in Payloads,
        t \in 0..MaxElapsed :
       timeOp = [NoTimeOperation EXCEPT !.variant = v, !.behaviour = b,
                                        !.metricName = m, !.payload = p,
                                        !.now = t]
NextTimeOperation == TimeOperationCall \/ TimeOperationSettled
SpecTimeOperation == InitTimeOperation /\ [][NextTimeOperation]_vars

\* createIntegrationEntity on every input within the bounds
InitEntity ==
  /\ StoreInit /\ ValidationIdle /\ CliIdle /\ LoggerIdle /\ SchedulerIdle
  /\ entityData \in EntityInputs
  /\ entity = NoEntity
NextEntity == CreateEntity
SpecEntity == InitEntity /\ [][NextEntity]_vars

\* the logger under any sequence of calls, and createErrorEventDescription
InitLogger ==
  /\ StoreInit /\ ValidationIdle /\ CliIdle /\ EntityIdle /\ LoggerIdle
  /\ SchedulerIdle
NextLogger ==
  \/ \E method \in PlainMethods : LogPlain(method)
  \/ \E method \in ErrorMethods, err \in LoggedErrors, id \in ErrorIds :
       LogError(method, err, id)
  \/ Describe
SpecLogger == InitLogger /\ [][NextLogger]_vars

\* the scheduler on every graph and start states within the bounds
InitScheduler ==
  /\ StoreInit /\ ValidationIdle /\ CliIdle /\ EntityIdle /\ LoggerIdle
  /\ graph \in Graphs
  /\ status = InitialStatus(graph)
  /\ invoked = <<>>
  /\ depsAtStart = [s \in GraphSteps |-> {}]
NextScheduler ==
  \/ \E s \in GraphSteps : Dispatch(s)
  \/ \E s \in GraphSteps : MarkPartial(s)
  \/ \E s \in GraphSteps : HandlerCompletes(s)
  \/ \E s \in GraphSteps : HandlerThrows(s)
SpecScheduler == InitScheduler /\ [][NextScheduler]_vars

-----------------------------------------------------------------------------
(* The claims about the graph object store *)

Holding(f) == fops[f].pc \in {"acquired", "listed", "writing"}
Flushes == DOMAIN fops
Pending(c) == calls[c].st = "pending"

\* the chunks added before the call of c with the kind and type it filters on
Expected(c) ==
  {i \in 1..calls[c].upto :
     added[i].kind = calls[c].kind /\ added[i].chunk.type = calls[c].type}

\* C1: an iterateEntities / iterateRelationships call made once flush() has
\* resolved and no add is in progress invokes the iteratee exactly once for
\* every entity added before it with the _type of the filter, never twice for
\* any entity, and for no entity of another type.
C1_IteratesEachAddedOnce ==
  \A c \in Callers :
    (calls[c].op = "iterate" /\ calls[c].st = "returned" /\ calls[c].quiet) =>
      /\ \A i \in Expected(c) : CopiesIn(i, calls[c].delivered) = 1
      /\ \A i \in DOMAIN added :
           /\ CopiesIn(i, calls[c].delivered) <= 1
           /\ CopiesIn(i, calls[c].delivered) = 1 =>
                /\ added[i].kind = calls[c].kind
                /\ added[i].chunk.type = calls[c].type

\* the flush operations that have bucket disk writes outstanding: those still
\* in a slot, and the rejected ones whose writes go on
FlushesWriting ==
  Cardinality({f \in Flushes : WritesOf(f) # {}})
    + (IF WritesOf(Orphan) # {} THEN 1 ELSE 0)

\* C2: at most one flush operation has buckets being drained or bucket disk
\* writes outstanding at any time.
C2_OneFlushAtATime == FlushesWriting <= 1

\* only one producer has called the store
SingleProducer == \A c \in Callers \ Drivers : calls[c].op = "none"

TotalOf(c) == storageMap[calls[c].kind].totalItemCount

\* an add call of c is made in this step
AddCalled(c) == added' # added /\ calls'[c] # calls[c]

\* C3: for a single producer that awaits each add call, the call starts a
\* flush of its map (one flush) if and only if the map's totalItemCount is
\* >= 500 after the append; a call that started none has returned with the
\* total below 500, and a call that started one has returned with the total 0.
C3_FlushAtThreshold ==
  /\ [][\A c \in Callers : (SingleProducer' /\ AddCalled(c)) =>
          /\ calls'[c].flushed <=>
               storageMap'[calls'[c].kind].totalItemCount
                 >= GRAPH_OBJECT_BUFFER_THRESHOLD
          /\ Cardinality(calls'[c].awaits) = IF calls'[c].flushed THEN 1 ELSE 0
          /\ Pending(c)' <=> calls'[c].flushed]_vars
  /\ [](\A c \in Callers :
          (SingleProducer /\ calls[c].op = "add" /\ calls[c].st = "returned") =>
             IF calls[c].flushed
               THEN TotalOf(c) = 0
               ELSE TotalOf(c) < GRAPH_OBJECT_BUFFER_THRESHOLD)

\* the 500th item of a single producer: its add has flushed and returned
C3_Witness ==
  /\ SingleProducer
  /\ \E c \in Callers :
       /\ calls[c].op = "add" /\ calls[c].st = "returned" /\ calls[c].flushed
       /\ TotalOf(c) = 0
       /\ \E t \in TypesOf(calls[c].kind) :
            BagCardinality(disk[calls[c].kind][t]) > 0

\* C4 as stated: no permit is held by a flush while a flushDataToDisk of one
\* of its buckets is in progress.
C4_ReleasedAcrossWrites ==
  \A w \in writes : w.fid # Orphan => ~Holding(w.fid)

\* C4 as amended: while a bucket's flushDataToDisk is in progress and no write
\* of its flush has rejected, that flush holds the only permit: the permit is
\* not free and no other operation holds it.
C4_HeldAcrossWrites ==
  \A w \in writes : w.fid # Orphan =>
    /\ fops[w.fid].pc = "writing"
    /\ semaphore.free = 0
    /\ \A g \in Flushes \ {w.fid} : ~Holding(g)

\* a disk write is in progress while another operation waits for the permit
C4_Witness ==
  \E w \in writes :
    /\ w.fid # Orphan
    /\ semaphore.waiting # <<>>
    /\ fops[Head(semaphore.waiting)].pc = "waiting"

\* C5 as stated: the chunks a flush hands to flushDataToDisk are exactly those
\* buffered at the moment the semaphore was acquired and the buckets drained.
C5_WritesWhatWasBuffered ==
  \A f \in Flushes : fops[f].pc = "writing" =>
    /\ fops[f].drained = fops[f].atAcquire
    /\ fops[f].drained = fops[f].atDrain

PathOf(i) == added[i].path

\* C5 as amended: a flush hands to flushDataToDisk exactly the chunks that
\* are, when it drains, in the buckets whose paths it listed when its
\* operation started. Those include every chunk buffered when the semaphore
\* was acquired. A chunk added before the drain to a path that was not
\* listed, or added after the drain, is not written by this flush and stays
\* buffered while this flush goes on.
C5_WritesListedBuckets ==
  \A f \in Flushes : fops[f].pc = "writing" =>
    /\ fops[f].atAcquire \subseteq fops[f].drained
    /\ fops[f].drained \subseteq fops[f].atDrain
    /\ \A i \in fops[f].atDrain :
         i \in fops[f].drained <=> PathOf(i) \in fops[f].keys
    /\ \A i \in (fops[f].atDrain \ fops[f].drained)
                  \cup {j \in DOMAIN added :
                          j > fops[f].seen /\ added[j].kind = fops[f].kind} :
         i \in Buffered(storageMap[fops[f].kind])

\* a flush that writes a chunk added after it got the permit, and leaves one
\* buffered that was added before its drain
C5_Witness ==
  \E f \in Flushes :
    /\ fops[f].pc = "writing"
    /\ fops[f].drained \ fops[f].atAcquire # {}
    /\ fops[f].atDrain \ fops[f].drained # {}

\* A cap that does not depend on the number of bucket paths is below the
\* number of paths of some store: here the store has one path more.
FlushConcurrencyCap == Cardinality(Paths) - 1

\* C6: the bucket disk writes in flight within one flush never exceed a cap
\* that does not depend on how many bucket paths the BucketMap holds.
C6_BoundedFlushParallelism ==
  \A f \in Flushes : Cardinality(WritesOf(f)) <= FlushConcurrencyCap

\* the permit is free or held by exactly one flush that has not ended; an
\* operation waits only while such a flush holds the permit, and that flush
\* can take its next step; no call is left awaiting a flush that has ended
PermitAccounted ==
  /\ semaphore.free + Cardinality({f \in Flushes : Holding(f)}) = 1
  /\ {semaphore.waiting[i] : i \in DOMAIN semaphore.waiting}
       = {f \in Flushes : fops[f].pc = "waiting"}
  /\ \A f \in Flushes : fops[f].pc = "writing" => WritesOf(f) # {}
  /\ \A c \in Callers : Pending(c) <=>
       (calls[c].awaits # {} /\ \A f \in calls[c].awaits : fops[f].pc # "free")

\* a bucket's disk write rejects in this step
WriteRejects == writes' # writes /\ disk' = disk /\ storageMap' = storageMap

\* C7: the permit is released on every exit path of a flush, whether its
\* disk writes succeeded or one of them rejected: whenever a flush has ended
\* the permit is free again or held by the next flush, which can go on, and
\* the call that awaited a flush whose write rejected is rejected.
C7_ReleasedOnEveryExit ==
  /\ []PermitAccounted
  /\ [][\A c \in Callers : (Pending(c) /\ ~Pending(c)') =>
          (calls'[c].st = "rejected" <=> WriteRejects)]_vars

\* a disk write has rejected, its caller has the rejection, and another flush
\* has the permit
C7_Witness ==
  /\ \E c \in Callers : calls[c].st = "rejected"
  /\ \E f \in Flushes : fops[f].pc = "acquired"

-----------------------------------------------------------------------------
(* The claims about validateStepStartStates *)

Range(seq) == {seq[i] : i \in DOMAIN seq}
Called == result # NotCalled
KeySet == Range(ObjectKeys(states))
StepIdSet == Range(steps)

\* C8: the call returns without throwing if and only if the set of keys of
\* states equals the set of ids of steps, whatever the disabled flags are.
C8_ReturnsIffExactCover ==
  Called => (result = Returned <=> KeySet = StepIdSet)

\* a call that returned although a state is disabled and a step declared twice
C8_Witness ==
  /\ result = Returned
  /\ \E i \in DOMAIN states : states[i].disabled
  /\ Len(steps) > Cardinality(StepIdSet)

InvalidKeys == {i \in DOMAIN states : states[i].stepId \notin StepIdSet}

\* C9: when states has a key that is no declared step id, the call throws
\* IntegrationStepStartStateInvalidStepIdError naming the first such key in
\* key order, also when declared steps are missing from states.
C9_InvalidStepIdFirst ==
  (Called /\ InvalidKeys # {}) =>
     /\ result.error = "IntegrationStepStartStateInvalidStepIdError"
     /\ \E i \in InvalidKeys :
          /\ \A j \in InvalidKeys : i <= j
          /\ result.stepIds = <<states[i].stepId>>

\* two invalid keys and a declared step missing: the first invalid key is named
C9_Witness ==
  /\ Called
  /\ Cardinality(InvalidKeys) >= 2
  /\ StepIdSet \ KeySet # {}
  /\ result.error = "IntegrationStepStartStateInvalidStepIdError"

\* the positions in steps of the first declaration of each id that has no key
MissingFirsts ==
  {i \in DOMAIN steps :
     /\ steps[i] \notin KeySet
     /\ \A j \in 1..(i - 1) : steps[j] # steps[i]}

\* C10: when every key is a declared step id and some declared step has no
\* key, the call throws IntegrationUnaccountedStepStartStatesError naming
\* exactly the declared ids absent from states, each once, in declaration
\* order.
C10_UnaccountedInDeclarationOrder ==
  (Called /\ InvalidKeys = {} /\ StepIdSet \ KeySet # {}) =>
     /\ result.error = "IntegrationUnaccountedStepStartStatesError"
     /\ Range(result.stepIds) = StepIdSet \ KeySet
     /\ Len(result.stepIds) = Cardinality(StepIdSet \ KeySet)
     /\ \A i, j \in DOMAIN result.stepIds : i < j =>
          \E m, n \in MissingFirsts :
            m < n /\ steps[m] = result.stepIds[i] /\ steps[n] = result.stepIds[j]

\* two steps missing, one of them declared twice, and one step present
C10_Witness ==
  /\ result.error = "IntegrationUnaccountedStepStartStatesError"
  /\ Len(result.stepIds) = 2
  /\ Len(steps) > Cardinality(StepIdSet)
  /\ KeySet # {}

-----------------------------------------------------------------------------
(* The claims about the run command, timeOperation and the event queue *)

\* the action has completed normally (exit code 0) or failed (non-zero)
RunEnded == run.pc \in {"resolved", "rejected"}

\* the catch block of the action has caught an error of the try block
Caught == run.caught # NoError

\* C11: the action of the run command completes normally (exit code 0) only
\* when the synchronization job was finalized, and it fails (non-zero exit
\* code) whenever the job was aborted because execution, upload or
\* finalization threw.
C11_ExitCodeTellsOutcome ==
  /\ run.pc = "resolved" => job = "FINALIZED"
  /\ (RunEnded /\ Caught /\ job = "ABORTED") => run.pc = "rejected"

PostedOrGivenUp(e) ==
  e \in queue.dropped \/ \E i \in DOMAIN queue.delivered : queue.delivered[i] = e

\* uploadCollectedData has been called
UploadCalled == run.pc \in {"uploading", "finalizing"} \/ job = "FINALIZED"

\* C13: uploadCollectedData is not called before the execution has completed
\* and onIdle() has resolved: every event enqueued during the execution has
\* been posted, or given up for good, by the first upload call.
C13_UploadAfterDrain ==
  UploadCalled =>
    /\ run.thrownBy # "execute"
    /\ \A e \in 1..run.executionEvents : PostedOrGivenUp(e)

\* an upload that starts after two events of the execution, one posted and
\* one given up
C13_Witness ==
  /\ run.pc = "uploading"
  /\ run.executionEvents >= 2
  /\ queue.dropped # {}
  /\ queue.delivered # <<>>

TimeOperationEnded == timeOp.pc \in {"resolved", "rejected"}

\* C14: every call of timeOperation, in either variant, calls
\* logger.publishMetric exactly once, with the given metricName and the unit
\* 'Milliseconds', whether the operation returns a plain value, a promise
\* that resolves or one that rejects, or throws; the caller gets the
\* operation's result or its error.
C14_PublishesOnEveryOutcome ==
  TimeOperationEnded =>
    /\ Len(metrics) = 1
    /\ metrics[1].metricName = timeOp.metricName
    /\ metrics[1].unit = "Milliseconds"
    /\ timeOp.received = timeOp.payload
    /\ timeOp.pc = "rejected" <=> timeOp.behaviour \in {"rejects", "throws"}

\* the events the queue has yet to post come after the one in flight, in the
\* order of their enqueue calls
PendingInOrder ==
  /\ \A i, j \in DOMAIN queue.pending :
       i < j => queue.pending[i] < queue.pending[j]
  /\ \A i \in DOMAIN queue.pending :
       /\ queue.pending[i] > queue.inflight.event
       /\ ~PostedOrGivenUp(queue.pending[i])

\* C15: the events are posted in the order of their enqueue calls, one post
\* at a time: the post of an event starts only after the post of every event
\* enqueued before it has completed, by success or by giving up, and onIdle()
\* resolves only when the queue is empty and no post is in flight.
C15_PostsInEnqueueOrder ==
  /\ [](/\ \A i, j \in DOMAIN queue.delivered :
             i < j => queue.delivered[i] < queue.delivered[j]
        /\ queue.inflight # NoPost =>
             /\ ~PostedOrGivenUp(queue.inflight.event)
             /\ \A e \in 1..(queue.inflight.event - 1) : PostedOrGivenUp(e)
        /\ PendingInOrder)
  /\ [][(run.pc \in {"draining", "catchDraining"} /\ run.pc' # run.pc) =>
          (QueueIdle(queue) /\ queue' = queue)]_vars

\* an event waits in the queue while the post of the one before it is
\* retried, after a first event was delivered
C15_Witness ==
  /\ queue.inflight.attempt = MaxAttempts
  /\ queue.pending # <<>>
  /\ queue.delivered # <<>>

-----------------------------------------------------------------------------
(* The claims about createIntegrationEntity *)

EntityCalled == entity # NoEntity
Produced == EntityCalled /\ entity.error = "none"

\* assign._rawData names 'default' although the source gives the default
\* entry, or names one entry twice
RawDataClash ==
  LET names == entityData.assign.rawData
  IN \/ /\ ~SourceIsEmpty(entityData.source)
        /\ \E i \in DOMAIN names : names[i] = "default"
     \/ \E i, j \in DOMAIN names : i # j /\ names[i] = names[j]

\* C16: the _rawData of a returned entity has pairwise distinct names, begins
\* with { name: 'default', rawData: source } if and only if the source is not
\* empty, and goes on with the _rawData entries of assign in their order (an
\* empty source and no assigned _rawData give []); when assign._rawData names
\* 'default' with a non-empty source, or one name twice, the call throws a
\* duplicate error and returns no entity.
C16_RawDataDefaultThenAssigned ==
  /\ Produced =>
       LET raw == entity.rawData
           sourceGiven == ~SourceIsEmpty(entityData.source)
           fromSource ==
             raw # <<>> /\ raw[1] = [name |-> "default", rawData |-> "source"]
       IN /\ \A i, j \in DOMAIN raw : i # j => raw[i].name # raw[j].name
          /\ fromSource <=> sourceGiven
          /\ LET rest == IF fromSource THEN Tail(raw) ELSE raw
             IN /\ Len(rest) = Len(entityData.assign.rawData)
                /\ \A i \in DOMAIN rest :
                     rest[i] = [name |-> entityData.assign.rawData[i],
                                rawData |-> "assigned"]
  /\ (EntityCalled /\ RawDataClash) => entity.error = "duplicate"

\* an entity of a non-empty source with two assigned _rawData entries
C16_Witness ==
  /\ Produced
  /\ ~SourceIsEmpty(entityData.source)
  /\ Len(entityData.assign.rawData) = 2
  /\ Len(entity.rawData) = 3

\* the displayName by the precedence assign.displayName > tag.name >
\* source.name
StatedDisplayName ==
  IF entityData.assign.displayName # Absent
    THEN entityData.assign.displayName
  ELSE IF entityData.source.tagName # Absent THEN entityData.source.tagName
  ELSE entityData.source.name

-----------------------------------------------------------------------------
(* The claims about the logger *)

\* the event names as the claim gives them
StatedEventName(method) ==
  CASE method = "stepStart" -> "step_start"
    [] method = "stepSuccess" -> "step_end"
    [] method = "stepFailure" -> "step_failure"
    [] method = "synchronizationUploadStart" -> "sync_upload_start"
    [] method = "synchronizationUploadEnd" -> "sync_upload_end"
    [] method = "validationFailure" -> "validation_failure"

\* C18: each call of stepStart, stepSuccess, stepFailure,
\* synchronizationUploadStart, synchronizationUploadEnd and validationFailure
\* publishes exactly one event through onPublishEvent, within the call, named
\* step_start, step_end, step_failure, sync_upload_start, sync_upload_end and
\* validation_failure: the published names are the calls, in call order.
C18_OneEventPerCallInOrder ==
  /\ Len(published) = Len(logCalls)
  /\ \A i \in DOMAIN logCalls :
       published[i].name = StatedEventName(logCalls[i])

\* stepStart, stepSuccess and stepFailure, called in that order
C18_Witness ==
  /\ logCalls = <<"stepStart", "stepSuccess", "stepFailure">>
  /\ Len(published) = 3

Described == described # NotDescribed

-----------------------------------------------------------------------------
(* The claims about the step scheduler *)

RECURSIVE TransitiveDependencies(_)
TransitiveDependencies(s) ==
  graph.dependsOn[s]
    \cup UNION {TransitiveDependencies(d) : d \in graph.dependsOn[s]}

\* the scheduler has terminated: no step is PENDING or RUNNING
SchedulerDone == \A s \in GraphSteps : status[s] \in Terminal

HasUnsuccessfulDependency(s) ==
  \E d \in TransitiveDependencies(s) : status[d] # "SUCCESS"

HandlerInvoked(s) == \E i \in DOMAIN invoked : invoked[i] = s

\* no handler starts before all the dependencies of its step are terminal
StartsAfterDependencies ==
  \A s \in GraphSteps : HandlerInvoked(s) => depsAtStart[s] \subseteq Terminal

\* C20 as stated: when the scheduler terminates, every step with a transitive
\* dependency whose terminal status is not SUCCESS has the status
\* PARTIAL_SUCCESS_DUE_TO_DEPENDENCY_FAILURE and its handler was never
\* invoked, and no handler starts before all dependencies are terminal.
C20_DependentsAllPartial ==
  /\ SchedulerDone =>
       \A s \in GraphSteps : HasUnsuccessfulDependency(s) =>
         /\ status[s] = "PARTIAL_SUCCESS_DUE_TO_DEPENDENCY_FAILURE"
         /\ ~HandlerInvoked(s)
  /\ StartsAfterDependencies

\* C20 as amended: when the scheduler terminates, every step that is not
\* disabled and has a transitive dependency whose terminal status is not
\* SUCCESS has the status PARTIAL_SUCCESS_DUE_TO_DEPENDENCY_FAILURE; a
\* disabled step has the status DISABLED whatever its dependencies are; the
\* handler of neither was ever invoked, and no handler starts before all the
\* dependencies of its step are terminal.
C20_EnabledDependentsPartial ==
  /\ SchedulerDone =>
       \A s \in GraphSteps :
         /\ (HasUnsuccessfulDependency(s) /\ ~graph.disabled[s]) =>
              /\ status[s] = "PARTIAL_SUCCESS_DUE_TO_DEPENDENCY_FAILURE"
              /\ ~HandlerInvoked(s)
         /\ graph.disabled[s] =>
              /\ status[s] = "DISABLED"
              /\ ~HandlerInvoked(s)
  /\ StartsAfterDependencies

\* a chain of three steps whose first handler threw: the other two are
\* partial and were not invoked
C20_Witness ==
  /\ SchedulerDone
  /\ \E a, b, c \in GraphSteps :
       /\ a \in graph.dependsOn[b] /\ b \in graph.dependsOn[c]
       /\ a \notin graph.dependsOn[c]
       /\ status[a] = "FAILURE"
       /\ status[b] = "PARTIAL_SUCCESS_DUE_TO_DEPENDENCY_FAILURE"
       /\ status[c] = "PARTIAL_SUCCESS_DUE_TO_DEPENDENCY_FAILURE"
       /\ invoked = <<a>>

-----------------------------------------------------------------------------
(* The claims about the buffers of the graph object store *)

\* where a chunk that was handed to the store can be
InBucketMap(i) == i \in Buffered(storageMap[added[i].kind])
InWrite(i) == \E w \in writes : i \in Ids(w.data)
OnDisk(i) ==
  \E t \in TypesOf(added[i].kind) : CopiesIn(i, disk[added[i].kind][t]) > 0
Kept(i) == InBucketMap(i) \/ InWrite(i) \/ OnDisk(i)

\* No disk write has rejected so far. A chunk leaves the BucketMap only into a
\* disk write, and leaves a disk write only onto the disk or, when the write
\* rejects, to nowhere; a write always carries a chunk, and a chunk is added
\* once. So a write has rejected exactly when some chunk is in none of the
\* three.
NoWriteFailed == \A i \in DOMAIN added : Kept(i)

AddPending == \E c \in Callers : calls[c].op = "add" /\ Pending(c)

\* C21: for producers that interleave their add calls, and as long as no disk
\* write has failed: in every state in which no add call is pending the
\* totalItemCount of the entities' map is below 500, and so is that of the
\* relationships' map; and an add that reached the threshold has not returned
\* before a flush has drained the buffer and completed, so that every item of
\* its kind added up to its own is on disk.
C21_BelowThresholdWhenNoAddPending ==
  NoWriteFailed =>
    /\ ~AddPending =>
         \A k \in Kinds :
           storageMap[k].totalItemCount < GRAPH_OBJECT_BUFFER_THRESHOLD
    /\ \A c \in Callers :
         (calls[c].op = "add" /\ calls[c].flushed /\ calls[c].st = "returned") =>
            \A i \in 1..calls[c].upto :
              added[i].kind = calls[c].kind => OnDisk(i)

\* two producers have interleaved their adds: the add of one reached the
\* threshold and has returned after its flush, the other has added since the
\* drain, and no add is pending
C21_Witness ==
  /\ NoWriteFailed
  /\ ~AddPending
  /\ \E c, d \in Callers :
       /\ c # d
       /\ calls[c].op = "add" /\ calls[c].flushed /\ calls[c].st = "returned"
       /\ calls[d].op = "add" /\ calls[d].kind = calls[c].kind
       /\ TotalOf(c) > 0

\* C26: no item handed to the store is lost: every entity or relationship
\* passed to addEntities / addRelationships is in its BucketMap, in a disk
\* write in progress, or on disk, also after a bucket's disk write has
\* rejected (the items of the failed bucket are then still in the BucketMap,
\* for a later flush).
C26_NoItemLost == \A i \in DOMAIN added : Kept(i)

Other(k) == CHOOSE j \in Kinds : j # k

\* an add call on the map of kind k is made in this step
AddOf(k) == added' # added /\ added'[Len(added')].kind = k

\* an iterate call of c is made in this step
IterateCalled(c) ==
  calls'[c].op = "iterate" /\ Pending(c)' /\ ~Pending(c) /\ added' = added

\* the flush operations started in this step, and the one that drains in it
StartedFlushes == {f \in Flushes : fops[f].pc = "free" /\ fops'[f].pc # "free"}
Drains(f) == fops[f].pc = "listed" /\ fops'[f].pc = "writing"

\* C27: the entity and the relationship buffers are independent: an add or an
\* iterate call on one kind leaves the BucketMap of the other kind, with its
\* totalItemCount, unchanged, and starts no flush of the other kind; the
\* flush it starts drains and writes its own kind only; a BucketMap changes
\* only by an add of its kind or the drain of a flush of its kind.
C27_BuffersIndependent ==
  [][/\ \A k \in Kinds :
          (AddOf(k) \/ \E c \in Callers : IterateCalled(c) /\ calls'[c].kind = k) =>
             /\ storageMap'[Other(k)] = storageMap[Other(k)]
             /\ \A f \in StartedFlushes : fops'[f].kind = k
             /\ writes' = writes /\ disk' = disk
     /\ \A c \in Callers :
          (AddCalled(c) \/ IterateCalled(c)) =>
             calls'[c].awaits \subseteq StartedFlushes
     /\ \A f \in Flushes :
          Drains(f) =>
             /\ storageMap'[Other(fops[f].kind)] = storageMap[Other(fops[f].kind)]
             /\ \A w \in writes' \ writes : w.kind = fops[f].kind
     /\ \A k \in Kinds :
          storageMap'[k] # storageMap[k] =>
             \/ AddOf(k)
             \/ \E f \in Flushes : Drains(f) /\ fops[f].kind = k]_vars

\* an add of entities has crossed the threshold and its flush has drained
\* the entities' map, while the relationships' map holds what was added to it
C27_Witness ==
  /\ \E c \in Callers :
       /\ calls[c].op = "add" /\ calls[c].kind = "entities" /\ Pending(c)
       /\ \E f \in calls[c].awaits :
            fops[f].pc = "writing" /\ fops[f].kind = "entities"
  /\ entityStorageMap.totalItemCount = 0
  /\ relationshipStorageMap.totalItemCount > 0

-----------------------------------------------------------------------------
(* The claims about how the run command ends the job *)

Initiated == run.pc = "loadConfig"
FinalizeCalled == run.finalizes # <<>>
AbortCalled == run.aborts # <<>>
TerminalCalls == Len(run.finalizes) + Len(run.aborts)

\* C22: in every run in which initiateSynchronization succeeds, and in which
\* the queue drain and the remote calls return, finalizeSynchronization or
\* abortSynchronization is eventually called for the job, whichever later
\* step fails (loadConfig, the execution, the upload), and exactly one of
\* them is called unless that terminal call itself fails.
C22_TerminalCallEventually ==
  /\ Initiated ~> (FinalizeCalled \/ AbortCalled)
  /\ [](run.thrownBy \notin {"finalize", "abort"} => TerminalCalls <= 1)

C24_QueueIdleAtTerminalCall ==
  run.pc \in {"finalizing", "aborting"} =>
     /\ QueueIdle(queue)
     /\ \A e \in 1..run.enqueued : PostedOrGivenUp(e)

\* C25: isHandledError decides only whether logger.error is called: for a
\* handled error as for one that is not, abortSynchronization is called once
\* the queue has been drained, once, with the error's message as reason.
C25_HandledErrorStillAborts ==
  (Caught /\ run.pc \in {"aborting", "resolved", "rejected"}) =>
     /\ run.aborts = <<[job |-> JobId, reason |-> run.caught.message]>>
     /\ run.logged = IF isHandledError(run.caught)
                       THEN <<>> ELSE <<run.caught.message>>
     /\ run.pc = "aborting" =>
          (QueueIdle(queue) /\ \A e \in 1..run.enqueued : PostedOrGivenUp(e))

\* a handled error was thrown after events had been enqueued: nothing was
\* logged with logger.error and the job is aborted with the error's message
C25_Witness ==
  /\ Caught /\ isHandledError(run.caught)
  /\ run.enqueued > 0
  /\ run.logged = <<>>
  /\ job = "ABORTED"
  /\ run.aborts = <<[job |-> JobId, reason |-> "handled failure"]>>

====
